---- MODULE Spec2Model ----
(***************************************************************************)
(* A model of src/tourism_agent.py: the rule-based place extraction and    *)
(* intent analysis (TourismParentAgent._extract_place, ._analyze_intent),  *)
(* the orchestration of the three child agents (.process_query) and the    *)
(* result loop of PlacesAgent.get_tourist_attractions.                     *)
(*                                                                         *)
(* Text is modelled by TLA+ strings, character by character: Python's      *)
(* str.lower, str.find, `in`, slicing, str.strip and str.split are the     *)
(* operators Lower, Find, Contains, SliceFrom/SliceTo, Strip and Split.    *)
(* Indices are Python's (0-based); SubSeq is 1-based.                      *)
(***************************************************************************)
EXTENDS Integers, Sequences, FiniteSets, TLC

VARIABLES
    \* process_query: one query, from the call to the return
    user_input,      \* the argument of process_query
    pc,              \* position of process_query
    intent,          \* the record returned by _analyze_intent
    location,        \* result of geocode_agent.get_coordinates
    weather,         \* result of weather_agent.get_weather
    places,          \* result of places_agent.get_tourist_attractions
    response_parts,  \* the list of sections
    result,          \* the returned text
    invoked,         \* child agents called so far in this query
    inflight,        \* child agents whose call has not returned yet
    \* _extract_place: the scan over the lead-in patterns
    ex_input,        \* user_input of _extract_place
    ex_i,            \* index of the pattern under test (1-based)
    ex_pc,           \* "scan", "fallback" or "done"
    after_pattern,   \* the text taken after the pattern (line 335)
    truncated,       \* after_pattern once the delimiter loop has run
    ex_place,        \* the returned place
    \* get_tourist_attractions: the loop over the provider's elements
    pl_limit,        \* the limit argument
    pl_elements,     \* data['elements']
    pl_i,            \* index of the next element (1-based)
    pl_places,       \* places
    pl_seen,         \* seen_names
    pl_pc            \* "request", "loop" or "done"

qvars == <<user_input, pc, intent, location, weather, places, response_parts,
           result, invoked, inflight>>
evars == <<ex_input, ex_i, ex_pc, after_pattern, truncated, ex_place>>
pvars == <<pl_limit, pl_elements, pl_i, pl_places, pl_seen, pl_pc>>
vars == <<qvars, evars, pvars>>

----------------------------------------------------------------------------
(* Bounds of the model *)

\* longest utterance, in words, given to process_query
MaxWords == 3
\* longest utterance, in words, given to _extract_place on its own
MaxExtractWords == 4
\* longest list of elements the places provider returns
MaxElems == 2
\* largest limit given to get_tourist_attractions on its own
MaxLimit == 2

----------------------------------------------------------------------------
(* Python string primitives *)

Min(S) == CHOOSE m \in S : \A n \in S : m <= n

UpperCase == {"A", "B", "C", "D", "E", "F", "G", "H", "I", "J", "K", "L", "M",
              "N", "O", "P", "Q", "R", "S", "T", "U", "V", "W", "X", "Y", "Z"}

\* str.lower on one character
LowerChar(c) ==
    CASE c = "A" -> "a" [] c = "B" -> "b" [] c = "C" -> "c" [] c = "D" -> "d"
      [] c = "E" -> "e" [] c = "F" -> "f" [] c = "G" -> "g" [] c = "H" -> "h"
      [] c = "I" -> "i" [] c = "J" -> "j" [] c = "K" -> "k" [] c = "L" -> "l"
      [] c = "M" -> "m" [] c = "N" -> "n" [] c = "O" -> "o" [] c = "P" -> "p"
      [] c = "Q" -> "q" [] c = "R" -> "r" [] c = "S" -> "s" [] c = "T" -> "t"
      [] c = "U" -> "u" [] c = "V" -> "v" [] c = "W" -> "w" [] c = "X" -> "x"
      [] c = "Y" -> "y" [] c = "Z" -> "z" [] OTHER -> c

RECURSIVE Lower(_)
\* str.lower
Lower(s) ==
    IF s = "" THEN ""
    ELSE LowerChar(SubSeq(s, 1, 1)) \o Lower(SubSeq(s, 2, Len(s)))

\* str.find(sub): 0-based index of the first occurrence, -1 when there is none
Find(s, sub) ==
    LET hits == {i \in 0..(Len(s) - Len(sub)) :
                    SubSeq(s, i + 1, i + Len(sub)) = sub}
    IN  IF hits = {} THEN -1 ELSE Min(hits)

\* sub in s
Contains(s, sub) == Find(s, sub) # -1

\* s[idx:] for idx >= 0
SliceFrom(s, idx) == SubSeq(s, idx + 1, Len(s))

\* s[:idx] for idx >= 0
SliceTo(s, idx) == SubSeq(s, 1, idx)

RECURSIVE LStrip(_, _)
\* str.lstrip(chars), chars given as a set of characters
LStrip(s, chars) ==
    IF s # "" /\ SubSeq(s, 1, 1) \in chars
    THEN LStrip(SubSeq(s, 2, Len(s)), chars) ELSE s

RECURSIVE RStrip(_, _)
\* str.rstrip(chars)
RStrip(s, chars) ==
    IF s # "" /\ SubSeq(s, Len(s), Len(s)) \in chars
    THEN RStrip(SubSeq(s, 1, Len(s) - 1), chars) ELSE s

WhiteSpace == {" ", "\n", "\t", "\r"}

\* str.strip()
Strip(s) == RStrip(LStrip(s, WhiteSpace), WhiteSpace)

RECURSIVE Split(_)
\* str.split(): the maximal runs of non-whitespace characters, in order
Split(s) ==
    LET t == LStrip(s, WhiteSpace)
        ends == {i \in 1..Len(t) : SubSeq(t, i, i) \in WhiteSpace}
        stop == IF ends = {} THEN Len(t) + 1 ELSE Min(ends)
    IN  IF t = "" THEN <<>>
        ELSE <<SubSeq(t, 1, stop - 1)>> \o Split(SubSeq(t, stop, Len(t)))

RECURSIVE JoinWith(_, _)
\* sep.join(parts)
JoinWith(sep, parts) ==
    IF parts = <<>> THEN ""
    ELSE IF Len(parts) = 1 THEN parts[1]
    ELSE parts[1] \o sep \o JoinWith(sep, Tail(parts))

----------------------------------------------------------------------------
(* TourismParentAgent._extract_place *)

\* the (pattern, search_pattern) pairs, lines 318-328
patterns ==
    << <<"going to ", " going to ">>,
       <<"go to ", " go to ">>,
       <<"visit ", " visit ">>,
       <<"in ", " in ">>,
       <<"to ", " to ">>,
       <<"travel to ", " travel to ">>,
       <<"trip to ", " trip to ">>,
       <<"headed to ", " headed to ">>,
       <<"flying to ", " flying to ">> >>

\* line 338
delimiters == <<",", "?", ".", "!", " and ", " what ", " let", " how",
                " when", " where">>

\* line 350
skip_words == {"I", "I'm", "What", "Where", "How", "When", "Can", "Could",
               "Should", "Would", "The"}

\* line 332: search_pattern in f" {user_lower} "
PatternMatches(user_lower, search_pattern) ==
    Contains(" " \o user_lower \o " ", search_pattern)

\* lines 334-335: the index comes from the text WITHOUT the padding
AfterPattern(text, user_lower, search_pattern) ==
    SliceFrom(text, Find(user_lower, search_pattern) + Len(search_pattern))

\* lines 340-341, one delimiter
CutAt(after, delimiter) ==
    IF Contains(Lower(after), delimiter)
    THEN SliceTo(after, Find(Lower(after), delimiter))
    ELSE after

RECURSIVE StopAtDelimiters(_, _)
\* lines 339-341: the delimiters k.. applied in list order to the remainder
StopAtDelimiters(after, k) ==
    IF k > Len(delimiters) THEN after
    ELSE StopAtDelimiters(CutAt(after, delimiters[k]), k + 1)

\* lines 335-343 for the pattern i: the place it yields ("" when none)
PatternPlace(text, user_lower, i) ==
    Strip(StopAtDelimiters(AfterPattern(text, user_lower, patterns[i][2]), 1))

PunctuationStripped == {",", ".", "?", "!", "'", "\""}

\* line 353
WordClean(word) == RStrip(LStrip(word, PunctuationStripped), PunctuationStripped)

\* line 354
IsCapitalized(word) ==
    LET word_clean == WordClean(word)
    IN  /\ word_clean # ""
        /\ SubSeq(word_clean, 1, 1) \in UpperCase
        /\ word_clean \notin skip_words

RECURSIVE Capitalized(_)
\* lines 352-355
Capitalized(words) ==
    IF words = <<>> THEN <<>>
    ELSE (IF IsCapitalized(Head(words)) THEN <<WordClean(Head(words))>> ELSE <<>>)
         \o Capitalized(Tail(words))

\* lines 347-360
FallbackPlace(text) == JoinWith(" ", Capitalized(Split(text)))

RECURSIVE ExtractFrom(_, _, _)
\* lines 331-360, from the pattern i on
ExtractFrom(text, user_lower, i) ==
    IF i > Len(patterns) THEN FallbackPlace(text)
    ELSE IF /\ PatternMatches(user_lower, patterns[i][2])
            /\ PatternPlace(text, user_lower, i) # ""
         THEN PatternPlace(text, user_lower, i)
         ELSE ExtractFrom(text, user_lower, i + 1)

_extract_place(text, user_lower) == ExtractFrom(text, user_lower, 1)

----------------------------------------------------------------------------
(* Utterances *)

RECURSIVE Sentences(_, _)
\* the texts of at most n words of W, single spaces between the words
Sentences(W, n) ==
    IF n = 0 THEN {""}
    ELSE LET S == Sentences(W, n - 1)
         IN  S \cup {IF s = "" THEN w ELSE s \o " " \o w : s \in S, w \in W}

\* with and without a trailing space (" " is the whitespace-only utterance)
Padded(S) == S \cup {s \o " " : s \in S}

ExtractWords == {"in", "to", "Rome", "What", "and"}
ExtractTexts == Padded(Sentences(ExtractWords, MaxExtractWords))

----------------------------------------------------------------------------
(* The scan of _extract_place, one pattern per step *)

QueryIdle ==
    /\ user_input = "" /\ pc = "idle"
    /\ intent = [place |-> "", needs_weather |-> FALSE, needs_places |-> FALSE]
    /\ location = [tag |-> "None"] /\ weather = [tag |-> "None"] /\ places = <<>>
    /\ response_parts = <<>> /\ result = "" /\ invoked = {} /\ inflight = {}

ExtractIdle ==
    /\ ex_input = "" /\ ex_i = 1 /\ ex_pc = "idle"
    /\ after_pattern = "" /\ truncated = "" /\ ex_place = ""

PlacesIdle ==
    /\ pl_limit = 0 /\ pl_elements = <<>> /\ pl_i = 1
    /\ pl_places = <<>> /\ pl_seen = {} /\ pl_pc = "idle"

ExtractInit ==
    /\ ex_input \in ExtractTexts
    /\ ex_i = 1 /\ ex_pc = "scan"
    /\ after_pattern = "" /\ truncated = "" /\ ex_place = ""
    /\ QueryIdle /\ PlacesIdle

\* line 332 false: next pattern
PatternAbsent ==
    /\ ex_pc = "scan"
    /\ ~PatternMatches(Lower(ex_input), patterns[ex_i][2])
    /\ ex_i' = ex_i + 1
    /\ ex_pc' = IF ex_i = Len(patterns) THEN "fallback" ELSE "scan"
    /\ UNCHANGED <<ex_input, after_pattern, truncated, ex_place>>

\* lines 332-345, the pattern occurs and its place is non-empty: return it
PatternWins ==
    /\ ex_pc = "scan"
    /\ PatternMatches(Lower(ex_input), patterns[ex_i][2])
    /\ PatternPlace(ex_input, Lower(ex_input), ex_i) # ""
    /\ after_pattern' = AfterPattern(ex_input, Lower(ex_input), patterns[ex_i][2])
    /\ truncated' = StopAtDelimiters(after_pattern', 1)
    /\ ex_place' = Strip(truncated')
    /\ ex_pc' = "done"
    /\ UNCHANGED <<ex_input, ex_i>>

\* lines 332-344, the pattern occurs but nothing is left of it: next pattern
PatternEmpty ==
    /\ ex_pc = "scan"
    /\ PatternMatches(Lower(ex_input), patterns[ex_i][2])
    /\ PatternPlace(ex_input, Lower(ex_input), ex_i) = ""
    /\ after_pattern' = AfterPattern(ex_input, Lower(ex_input), patterns[ex_i][2])
    /\ truncated' = StopAtDelimiters(after_pattern', 1)
    /\ ex_i' = ex_i + 1
    /\ ex_pc' = IF ex_i = Len(patterns) THEN "fallback" ELSE "scan"
    /\ UNCHANGED <<ex_input, ex_place>>

\* lines 347-360
Fallback ==
    /\ ex_pc = "fallback"
    /\ ex_place' = FallbackPlace(ex_input)
    /\ ex_pc' = "done"
    /\ UNCHANGED <<ex_input, ex_i, after_pattern, truncated>>

ExtractNext ==
    \/ PatternAbsent /\ UNCHANGED <<qvars, pvars>>
    \/ PatternWins /\ UNCHANGED <<qvars, pvars>>
    \/ PatternEmpty /\ UNCHANGED <<qvars, pvars>>
    \/ Fallback /\ UNCHANGED <<qvars, pvars>>

SpecExtract == ExtractInit /\ [][ExtractNext]_vars

----------------------------------------------------------------------------
(* PlacesAgent.get_tourist_attractions *)

LowerCase == {LowerChar(c) : c \in UpperCase}

\* str.upper on one character
UpperChar(c) ==
    IF c \in LowerCase THEN CHOOSE u \in UpperCase : LowerChar(u) = c ELSE c

RECURSIVE Replace(_, _, _)
\* str.replace(old, new) for a one-character old
Replace(s, old, new) ==
    IF s = "" THEN ""
    ELSE (IF SubSeq(s, 1, 1) = old THEN new ELSE SubSeq(s, 1, 1))
         \o Replace(SubSeq(s, 2, Len(s)), old, new)

RECURSIVE TitleFrom(_, _)
\* str.title(): a letter after a non-letter is upper-cased, the others lower-cased
TitleFrom(s, after_letter) ==
    IF s = "" THEN ""
    ELSE LET c == SubSeq(s, 1, 1)
             letter == c \in UpperCase \cup LowerCase
         IN  (IF ~letter THEN c
              ELSE IF after_letter THEN LowerChar(c) ELSE UpperChar(c))
             \o TitleFrom(SubSeq(s, 2, Len(s)), letter)

Title(s) == TitleFrom(s, FALSE)

\* the elements the provider may return. coords: "latlon" (the element has lat
\* and lon), "center" (it has a center with lat and lon), "none" (neither),
\* "bad_center" (a center without lat: line 186 raises KeyError).
\* name, tourism, historic: the tags; "" is an absent tag.
Elements ==
    { [coords |-> "latlon", name |-> "A", tourism |-> "museum", historic |-> ""],
      [coords |-> "center", name |-> "B", tourism |-> "", historic |-> "archaeological_site"],
      [coords |-> "center", name |-> "A", tourism |-> "", historic |-> ""],
      [coords |-> "latlon", name |-> "", tourism |-> "viewpoint", historic |-> ""],
      [coords |-> "none", name |-> "C", tourism |-> "museum", historic |-> ""],
      [coords |-> "bad_center", name |-> "D", tourism |-> "", historic |-> "castle"] }

RECURSIVE ListsUpTo(_, _)
\* the lists of at most n members of S
ListsUpTo(S, n) ==
    IF n = 0 THEN {<<>>}
    ELSE LET L == ListsUpTo(S, n - 1)
         IN  L \cup {Append(l, x) : l \in L, x \in S}

\* what requests.post / raise_for_status / response.json come to (lines 170-177):
\* an exception, or data whose 'elements' is a list (an absent key is [])
PlacesReplies ==
    {[status |-> "transport_error"], [status |-> "timeout"]}
    \cup {[status |-> "ok", elements |-> l] : l \in ListsUpTo(Elements, MaxElems)}

\* lines 183-188: what becomes of the element at the coordinates test
CoordsStep(element) ==
    CASE element.coords \in {"latlon", "center"} -> "go_on"
      [] element.coords = "bad_center" -> "raise"
      [] OTHER -> "continue"

\* line 194
Skipped(name, seen_names) == name = "" \/ name \in seen_names

\* line 200
AttractionType(element) ==
    IF element.tourism # "" THEN element.tourism
    ELSE IF element.historic # "" THEN element.historic
    ELSE "attraction"

\* lines 202-207 (latitude and longitude are carried along and never read)
MakePlace(element) ==
    [name |-> element.name,
     type |-> Title(Replace(AttractionType(element), "_", " "))]

\* lines 209-210, tested after the append
LimitReached(n_places, limit) == n_places >= limit

RECURSIVE LoopFrom(_, _, _, _, _)
\* lines 181-216 from the element i on: the returned list
LoopFrom(elements, i, found, seen_names, limit) ==
    IF i > Len(elements) THEN found
    ELSE LET element == elements[i]
         IN  CASE CoordsStep(element) = "raise" -> <<>>
               [] CoordsStep(element) = "continue" \/ Skipped(element.name, seen_names) ->
                    LoopFrom(elements, i + 1, found, seen_names, limit)
               [] OTHER ->
                    LET more == Append(found, MakePlace(element))
                    IN  IF LimitReached(Len(more), limit) THEN more
                        ELSE LoopFrom(elements, i + 1, more,
                                      seen_names \cup {element.name}, limit)

\* lines 151-216
get_tourist_attractions(reply, limit) ==
    IF reply.status # "ok" THEN <<>>
    ELSE LoopFrom(reply.elements, 1, <<>>, {}, limit)

----------------------------------------------------------------------------
(* The loop of get_tourist_attractions, one element per step *)

PlacesInit ==
    /\ pl_limit \in 0..MaxLimit
    /\ pl_elements = <<>> /\ pl_i = 1
    /\ pl_places = <<>> /\ pl_seen = {} /\ pl_pc = "request"
    /\ QueryIdle /\ ExtractIdle

\* lines 170-175 raise: line 216
ProviderFails ==
    /\ pl_pc = "request"
    /\ \E reply \in PlacesReplies : reply.status # "ok"
    /\ pl_pc' = "done"
    /\ UNCHANGED <<pl_limit, pl_elements, pl_i, pl_places, pl_seen>>

\* lines 177-179
ProviderReplies ==
    /\ pl_pc = "request"
    /\ \E reply \in PlacesReplies :
          /\ reply.status = "ok"
          /\ pl_elements' = reply.elements
    /\ pl_pc' = "loop"
    /\ UNCHANGED <<pl_limit, pl_i, pl_places, pl_seen>>

\* lines 188 and 195: continue
SkipElement ==
    /\ pl_pc = "loop" /\ pl_i <= Len(pl_elements)
    /\ \/ CoordsStep(pl_elements[pl_i]) = "continue"
       \/ /\ CoordsStep(pl_elements[pl_i]) = "go_on"
          /\ Skipped(pl_elements[pl_i].name, pl_seen)
    /\ pl_i' = pl_i + 1
    /\ UNCHANGED <<pl_limit, pl_elements, pl_places, pl_seen, pl_pc>>

\* line 186 raises: lines 214-216 return []
ElementRaises ==
    /\ pl_pc = "loop" /\ pl_i <= Len(pl_elements)
    /\ CoordsStep(pl_elements[pl_i]) = "raise"
    /\ pl_places' = <<>>
    /\ pl_pc' = "done"
    /\ UNCHANGED <<pl_limit, pl_elements, pl_i, pl_seen>>

\* lines 197-210
AppendElement ==
    /\ pl_pc = "loop" /\ pl_i <= Len(pl_elements)
    /\ CoordsStep(pl_elements[pl_i]) = "go_on"
    /\ ~Skipped(pl_elements[pl_i].name, pl_seen)
    /\ pl_seen' = pl_seen \cup {pl_elements[pl_i].name}
    /\ pl_places' = Append(pl_places, MakePlace(pl_elements[pl_i]))
    /\ pl_pc' = IF LimitReached(Len(pl_places'), pl_limit) THEN "done" ELSE "loop"
    /\ pl_i' = pl_i + 1
    /\ UNCHANGED <<pl_limit, pl_elements>>

\* the loop runs out of elements: line 212
LoopEnds ==
    /\ pl_pc = "loop" /\ pl_i > Len(pl_elements)
    /\ pl_pc' = "done"
    /\ UNCHANGED <<pl_limit, pl_elements, pl_i, pl_places, pl_seen>>

PlacesNext ==
    \/ ProviderFails /\ UNCHANGED <<qvars, evars>>
    \/ ProviderReplies /\ UNCHANGED <<qvars, evars>>
    \/ SkipElement /\ UNCHANGED <<qvars, evars>>
    \/ ElementRaises /\ UNCHANGED <<qvars, evars>>
    \/ AppendElement /\ UNCHANGED <<qvars, evars>>
    \/ LoopEnds /\ UNCHANGED <<qvars, evars>>

SpecPlaces == PlacesInit /\ [][PlacesNext]_vars

----------------------------------------------------------------------------
(* GeocodeAgent.get_coordinates and WeatherAgent.get_weather *)

\* Optional[...]: None, a value, or (were the except clause missing) an
\* exception leaving the function
None == [tag |-> "None"]
Raise == [tag |-> "Raise"]

\* what requests.get / raise_for_status / response.json come to (lines 45-53)
GeocodeReplies == {"match", "no_match", "transport_error", "timeout", "http_error"}

\* lines 36-68, the except clause of lines 66-68 left out
get_coordinates_uncaught(place_name, reply) ==
    CASE reply = "match" -> [tag |-> "Location", name |-> place_name]
      [] reply = "no_match" -> None
      [] OTHER -> Raise

\* lines 36-68
get_coordinates(place_name, reply) ==
    CASE reply = "match" -> [tag |-> "Location", name |-> place_name]
      [] reply = "no_match" -> None
      [] OTHER -> None

\* lines 117-143
_get_weather_description(code) ==
    CASE code = 0 -> "clear sky" [] code = 1 -> "mainly clear"
      [] code = 2 -> "partly cloudy" [] code = 3 -> "overcast"
      [] code = 45 -> "foggy" [] code = 48 -> "foggy"
      [] code = 51 -> "light drizzle" [] code = 53 -> "moderate drizzle"
      [] code = 55 -> "dense drizzle" [] code = 61 -> "slight rain"
      [] code = 63 -> "moderate rain" [] code = 65 -> "heavy rain"
      [] code = 71 -> "slight snow" [] code = 73 -> "moderate snow"
      [] code = 75 -> "heavy snow" [] code = 77 -> "snow grains"
      [] code = 80 -> "slight rain showers" [] code = 81 -> "moderate rain showers"
      [] code = 82 -> "violent rain showers" [] code = 85 -> "slight snow showers"
      [] code = 86 -> "heavy snow showers" [] code = 95 -> "thunderstorm"
      [] code = 96 -> "thunderstorm with slight hail"
      [] code = 99 -> "thunderstorm with heavy hail"
      [] OTHER -> "unknown weather"

\* what the weather provider answers (lines 87-92): an exception, or data with
\* or without the 'current' figures and the daily rain probabilities
\* (temperatures are whole degrees here)
WeatherReplies ==
    { [status |-> "transport_error"], [status |-> "timeout"],
      [status |-> "ok", has_current |-> TRUE, temperature_2m |-> 21,
       weather_code |-> 3, rain_probs |-> <<30, 60>>],
      [status |-> "ok", has_current |-> TRUE, temperature_2m |-> 8,
       weather_code |-> 4, rain_probs |-> <<>>],
      [status |-> "ok", has_current |-> FALSE, temperature_2m |-> 0,
       weather_code |-> 0, rain_probs |-> <<>>] }

\* lines 90-109
WeatherFromData(data) ==
    LET rain_chance == IF Len(data.rain_probs) > 0 THEN data.rain_probs[1] ELSE 0
        weather_code == IF data.has_current THEN data.weather_code ELSE 0
    IN  [tag |-> "WeatherInfo",
         temperature |-> IF data.has_current THEN data.temperature_2m ELSE 0,
         rain_chance |-> rain_chance,
         weather_code |-> weather_code,
         description |-> _get_weather_description(weather_code)]

\* lines 76-113, the except clause of lines 111-113 left out
get_weather_uncaught(loc, reply) ==
    IF reply.status = "ok" THEN WeatherFromData(reply) ELSE Raise

\* lines 76-113
get_weather(loc, reply) ==
    IF reply.status = "ok" THEN WeatherFromData(reply) ELSE None

----------------------------------------------------------------------------
(* TourismParentAgent._analyze_intent *)

\* lines 285-289
weather_keywords ==
    {"weather", "temperature", "temp", "rain", "hot", "cold", "climate",
     "forecast", "sunny", "cloudy", "warm", "cool", "degrees", "celsius",
     "fahrenheit"}

\* lines 293-297
places_keywords ==
    {"places", "visit", "attractions", "see", "trip", "plan", "go", "tourist",
     "sights", "recommendations", "where", "what to do", "things to do",
     "explore", "tourism"}

\* any(keyword in user_lower for keyword in keywords)
AnyKeyword(user_lower, keywords) ==
    \E keyword \in keywords : Contains(user_lower, keyword)

\* lines 276-312 without the default of lines 305-306
_analyze_intent_no_default(text) ==
    LET user_lower == Lower(text)
        place == _extract_place(text, user_lower)
        needs_weather == AnyKeyword(user_lower, weather_keywords)
        needs_places ==
            \/ AnyKeyword(user_lower, places_keywords)
            \/ Contains(user_lower, "plan") /\ Contains(user_lower, "trip")
    IN  [place |-> place, needs_weather |-> needs_weather,
         needs_places |-> needs_places]

\* lines 276-312
_analyze_intent(text) ==
    LET user_lower == Lower(text)
        place == _extract_place(text, user_lower)
        needs_weather == AnyKeyword(user_lower, weather_keywords)
        by_keyword ==
            \/ AnyKeyword(user_lower, places_keywords)
            \/ Contains(user_lower, "plan") /\ Contains(user_lower, "trip")
        needs_places ==
            \/ by_keyword
            \/ ~needs_weather /\ ~by_keyword /\ place # ""
    IN  [place |-> place, needs_weather |-> needs_weather,
         needs_places |-> needs_places]

----------------------------------------------------------------------------
(* TourismParentAgent.process_query *)

\* limit=5, line 261
DefaultLimit == 5

\* line 237
GuidanceMessage ==
    "I couldn't identify which place you're asking about. Please mention a specific location. For example: 'I'm going to Paris' or 'What's the weather in Tokyo?'"

\* line 244
NotFoundMessage(place_name) ==
    "I'm sorry, I don't know where '" \o place_name
    \o "' is. It doesn't seem to exist in my database. Could you please check the spelling or try a different place?"

\* line 274
NoIntentMessage(place_name) ==
    "I found " \o place_name
    \o ", but I'm not sure what information you need. You can ask about weather or places to visit!"

\* line 253 (the degree sign is written "deg")
WeatherText(place_name, w) ==
    "In " \o place_name \o ", it's currently " \o ToString(w.temperature)
    \o "degC with " \o w.description \o " and a " \o ToString(w.rain_chance)
    \o "% chance of rain."

\* line 256
WeatherApology(place_name) ==
    "I couldn't fetch weather information for " \o place_name \o " at the moment."

\* lines 252-256: the section appended for the weather
WeatherSection(place_name, w) ==
    IF w.tag = "WeatherInfo" THEN WeatherText(place_name, w)
    ELSE WeatherApology(place_name)

RECURSIVE PlacesLines(_, _)
\* lines 265-266: the numbered lines for the places idx..
PlacesLines(found, idx) ==
    IF idx > Len(found) THEN ""
    ELSE "\n  " \o ToString(idx) \o ". " \o found[idx].name
         \o " (" \o found[idx].type \o ")" \o PlacesLines(found, idx + 1)

\* lines 264-266
PlacesText(place_name, found) ==
    "Here are some great places you can visit in " \o place_name \o ":"
    \o PlacesLines(found, 1)

\* line 269
PlacesApology(place_name) ==
    "I couldn't find specific tourist attractions in " \o place_name
    \o ", but it's still worth exploring!"

\* lines 263-269: the section appended for the places
PlacesSection(place_name, found) ==
    IF found # <<>> THEN PlacesText(place_name, found)
    ELSE PlacesApology(place_name)

\* line 236: not place_name
PlaceMissingNever(place_name) == FALSE

PlaceMissing(place_name) == place_name = ""

\* line 243: not location
LocationMissingNever(loc) == FALSE

LocationMissing(loc) == loc.tag = "None"

\* lines 249 and 259 with both lookups dispatched at once
StartAfterGeocodeAtOnce(needs_weather, needs_places) ==
    (IF needs_weather THEN {"weather"} ELSE {})
    \cup (IF needs_places THEN {"places"} ELSE {})

\* lines 249 and 259: the child call made first once the place is geocoded
StartAfterGeocode(needs_weather, needs_places) ==
    IF needs_weather THEN {"weather"}
    ELSE IF needs_places THEN {"places"}
    ELSE {}

\* lines 271-274 joining with a single newline
AssembleSingleNewline(parts, place_name) ==
    IF parts # <<>> THEN JoinWith("\n", parts) ELSE NoIntentMessage(place_name)

\* lines 271-274: the returned text
Assemble(parts, place_name) ==
    IF parts # <<>> THEN JoinWith("\n\n", parts) ELSE NoIntentMessage(place_name)

\* the terminal state lines 271-274 end in
EndState(parts) == IF parts # <<>> THEN "Done" ELSE "NoActionableIntent"

QueryWords == {"in", "go", "rain", "Rome", "What"}
QueryTexts == Padded(Sentences(QueryWords, MaxWords))

\* line 230 for each utterance: intent = self._analyze_intent(user_input)
AnalyzedIntent == [text \in QueryTexts |-> _analyze_intent(text)]

QueryInit ==
    /\ user_input \in QueryTexts
    /\ pc = "start"
    /\ intent = [place |-> "", needs_weather |-> FALSE, needs_places |-> FALSE]
    /\ location = None /\ weather = None /\ places = <<>>
    /\ response_parts = <<>> /\ result = "" /\ invoked = {} /\ inflight = {}
    /\ ExtractIdle /\ PlacesIdle

\* lines 230-237: no place, the guidance message is returned
Unresolved ==
    /\ pc = "start"
    /\ PlaceMissing(AnalyzedIntent[user_input].place)
    /\ intent' = AnalyzedIntent[user_input]
    /\ result' = GuidanceMessage
    /\ pc' = "Unresolved"
    /\ UNCHANGED <<user_input, location, weather, places, response_parts,
                   invoked, inflight>>

\* lines 230-241: a place, the geocoding call is made
CallGeocode ==
    /\ pc = "start"
    /\ ~PlaceMissing(AnalyzedIntent[user_input].place)
    /\ intent' = AnalyzedIntent[user_input]
    /\ invoked' = invoked \cup {"geocode"}
    /\ inflight' = inflight \cup {"geocode"}
    /\ pc' = "geocoding"
    /\ UNCHANGED <<user_input, location, weather, places, response_parts, result>>

\* lines 241-244: get_coordinates returns nothing
GeocodeFails ==
    /\ pc = "geocoding"
    /\ \E reply \in GeocodeReplies :
          /\ location' = get_coordinates(intent.place, reply)
          /\ location' = Raise \/ LocationMissing(location')
    /\ inflight' = inflight \ {"geocode"}
    /\ IF location' = Raise
       THEN pc' = "Raised" /\ result' = result
       ELSE pc' = "PlaceNotFound" /\ result' = NotFoundMessage(intent.place)
    /\ UNCHANGED <<user_input, intent, weather, places, response_parts, invoked>>

\* lines 241-261: get_coordinates returns a Location; the first lookup is called,
\* or, none being asked for, lines 271-274 are reached
GeocodeSucceeds ==
    /\ pc = "geocoding"
    /\ \E reply \in GeocodeReplies :
          /\ location' = get_coordinates(intent.place, reply)
          /\ location' # Raise /\ ~LocationMissing(location')
    /\ LET started == StartAfterGeocode(intent.needs_weather, intent.needs_places)
       IN  /\ invoked' = invoked \cup started
           /\ inflight' = (inflight \ {"geocode"}) \cup started
           /\ IF started = {}
              THEN /\ pc' = EndState(response_parts)
                   /\ result' = Assemble(response_parts, intent.place)
              ELSE /\ pc' = "lookups"
                   /\ result' = result
    /\ UNCHANGED <<user_input, intent, weather, places, response_parts>>

\* lines 251-261 (and 271-272 when no places are asked for): get_weather
\* returns, its section is appended, the places lookup is called
WeatherReturns ==
    /\ pc = "lookups" /\ "weather" \in inflight
    /\ \E reply \in WeatherReplies :
          weather' = get_weather(location, reply)
    /\ IF weather' = Raise
       THEN /\ pc' = "Raised"
            /\ inflight' = inflight \ {"weather"}
            /\ UNCHANGED <<response_parts, result, invoked>>
       ELSE /\ response_parts' =
                  Append(response_parts, WeatherSection(intent.place, weather'))
            /\ IF intent.needs_places
               THEN /\ invoked' = invoked \cup {"places"}
                    /\ inflight' = (inflight \ {"weather"}) \cup {"places"}
                    /\ pc' = "lookups"
                    /\ result' = result
               ELSE /\ invoked' = invoked
                    /\ inflight' = inflight \ {"weather"}
                    /\ pc' = EndState(response_parts')
                    /\ result' = Assemble(response_parts', intent.place)
    /\ UNCHANGED <<user_input, intent, location, places>>

\* lines 261-274: get_tourist_attractions returns, its section is appended and
\* the sections are joined
PlacesReturns ==
    /\ pc = "lookups" /\ "places" \in inflight
    /\ \E reply \in PlacesReplies :
          places' = get_tourist_attractions(reply, DefaultLimit)
    /\ response_parts' =
          Append(response_parts, PlacesSection(intent.place, places'))
    /\ inflight' = inflight \ {"places"}
    /\ pc' = EndState(response_parts')
    /\ result' = Assemble(response_parts', intent.place)
    /\ UNCHANGED <<user_input, intent, location, weather, invoked>>

QueryNext ==
    \/ Unresolved /\ UNCHANGED <<evars, pvars>>
    \/ CallGeocode /\ UNCHANGED <<evars, pvars>>
    \/ GeocodeFails /\ UNCHANGED <<evars, pvars>>
    \/ GeocodeSucceeds /\ UNCHANGED <<evars, pvars>>
    \/ WeatherReturns /\ UNCHANGED <<evars, pvars>>
    \/ PlacesReturns /\ UNCHANGED <<evars, pvars>>

Spec == QueryInit /\ [][QueryNext]_vars

\* every child call is bounded by its timeout (10 s, 10 s and 30 s: lines 49, 87
\* and 173), so a call that is in flight returns
FairSpec == Spec /\ WF_vars(QueryNext)

----------------------------------------------------------------------------
(* Properties of process_query *)

Terminals == {"Unresolved", "PlaceNotFound", "NoActionableIntent", "Done"}

Geocoded == location.tag = "Location"

Returned(agent) == agent \in invoked /\ agent \notin inflight

\* the sections a geocoded query owes: the weather's, then the places'
RequestedSections ==
    (IF intent.needs_weather
     THEN <<IF weather.tag = "WeatherInfo"
            THEN WeatherText(intent.place, weather)
            ELSE WeatherApology(intent.place)>>
     ELSE <<>>)
    \o (IF intent.needs_places
        THEN <<IF places # <<>>
               THEN PlacesText(intent.place, places)
               ELSE PlacesApology(intent.place)>>
        ELSE <<>>)

\* C1: once the place is geocoded no outcome of a lookup aborts the query; a
\* weather lookup that failed is followed by the places lookup when places were
\* asked for; and the returned text holds one section, data or apology, for
\* each capability asked for, so it is not empty.
C1_FailureIsolation ==
    /\ Geocoded => pc # "Raised"
    /\ (Geocoded /\ Returned("weather") /\ weather = None /\ intent.needs_places)
          => "places" \in invoked
    /\ (Geocoded /\ pc \in Terminals) =>
          /\ intent.needs_weather => Returned("weather")
          /\ intent.needs_places => Returned("places")
          /\ response_parts = RequestedSections
          /\ \A k \in 1..Len(RequestedSections) :
                Contains(result, RequestedSections[k])
          /\ result # ""

\* the weather lookup failed, the places lookup found two places
C1_Witness ==
    /\ pc = "Done" /\ intent.needs_weather /\ intent.needs_places
    /\ weather = None /\ Len(places) = 2
    /\ result = WeatherApology(intent.place) \o "\n\n"
                \o PlacesText(intent.place, places)

\* C2: when the place extracted from the utterance is empty, the query ends
\* with the guidance message and no child agent has been called.
C2_UnresolvedPlace ==
    (pc # "start" /\ _extract_place(user_input, Lower(user_input)) = "") =>
        /\ pc = "Unresolved"
        /\ result = GuidanceMessage
        /\ invoked = {} /\ inflight = {}

\* a keyword-only utterance ended with the guidance message
C2_Witness ==
    /\ pc = "Unresolved"
    /\ AnyKeyword(Lower(user_input), weather_keywords)
    /\ result = GuidanceMessage

\* C3: the weather and places lookups are called only once the geocoding call
\* has returned, and returned a Location; when it returned none, the query ends
\* in PlaceNotFound with a message naming the place and with no lookup called.
C3_GeocodingFirst ==
    /\ ("weather" \in invoked \/ "places" \in invoked) =>
          Returned("geocode") /\ Geocoded
    /\ (Returned("geocode") /\ ~Geocoded) =>
          /\ pc = "PlaceNotFound"
          /\ result = NotFoundMessage(intent.place)
          /\ Contains(result, "'" \o intent.place \o "'")
          /\ invoked = {"geocode"} /\ inflight = {}

\* geocoding found nothing for a query that asked for the weather
C3_Witness ==
    /\ pc = "PlaceNotFound" /\ intent.needs_weather /\ invoked = {"geocode"}

\* where a query stands: every step of process_query moves it forward
Progress ==
    Cardinality(invoked) + Cardinality(invoked \ inflight)
    + (IF pc \in Terminals THEN 1 ELSE 0)

C4_Safe ==
    /\ pc # "Raised"
    /\ pc \in Terminals \cup {"start", "geocoding", "lookups"}
    /\ pc \in Terminals <=> result # ""
    /\ pc \in Terminals => inflight = {}
    /\ pc = "Unresolved" <=> result = GuidanceMessage
    /\ pc = "PlaceNotFound" <=> (result # "" /\ result = NotFoundMessage(intent.place))
    /\ pc \in {"Done", "NoActionableIntent"} <=>
          (result # "" /\ result = Assemble(response_parts, intent.place)
             /\ Geocoded)

\* C4: for every utterance and every outcome of the three child agents the query
\* reaches one of the terminal states Unresolved, PlaceNotFound,
\* NoActionableIntent and Done, with a text returned; no exception leaves
\* process_query; every step moves the query forward.
C4_Total ==
    /\ []C4_Safe
    /\ [][Progress' > Progress]_vars
    /\ <>(pc \in Terminals)

\* every lookup failed and the query still ended in Done with a text
C4_Witness ==
    /\ pc = "Done" /\ intent.needs_weather /\ intent.needs_places
    /\ weather = None /\ places = <<>> /\ result # ""

\* C5, as claimed: with both capabilities asked for, the places lookup is called
\* while the weather lookup is still in flight.
C5_Concurrent ==
    [][(/\ intent.needs_weather /\ intent.needs_places
        /\ "places" \notin invoked /\ "places" \in invoked')
          => "weather" \in inflight']_vars

\* C5, amended: the lookups are sequential. The places lookup is called only
\* after the weather lookup has returned, the two are never in flight
\* together, and the sections are the weather's then the places', whatever the
\* outcomes.
C5_Sequential ==
    /\ ~({"weather", "places"} \subseteq inflight)
    /\ ("places" \in invoked /\ intent.needs_weather) => Returned("weather")
    /\ (pc = "Done" /\ intent.needs_weather /\ intent.needs_places) =>
          response_parts = <<WeatherSection(intent.place, weather),
                             PlacesSection(intent.place, places)>>

\* both asked for: the weather has returned and the places call is in flight
C5_Witness ==
    /\ intent.needs_weather /\ intent.needs_places
    /\ inflight = {"places"} /\ weather.tag = "WeatherInfo"
    /\ Len(response_parts) = 1

\* C6: with both capabilities asked for, the returned text is the weather
\* section, one blank line, and the places section.
C6_SectionOrder ==
    (pc = "Done" /\ intent.needs_weather /\ intent.needs_places) =>
        LET w == IF weather.tag = "WeatherInfo"
                 THEN WeatherText(intent.place, weather)
                 ELSE WeatherApology(intent.place)
            p == IF places # <<>>
                 THEN PlacesText(intent.place, places)
                 ELSE PlacesApology(intent.place)
        IN  /\ result = w \o "\n\n" \o p
            /\ Find(result, w) = 0
            /\ Find(result, p) = Len(w) + 2

\* both sections carry data
C6_Witness ==
    /\ pc = "Done" /\ intent.needs_weather /\ intent.needs_places
    /\ weather.tag = "WeatherInfo" /\ places # <<>>
    /\ Len(response_parts) = 2

\* C7: the intent record of every utterance has both flags false only with an
\* empty place; so a geocoded query asks for something and never ends in
\* NoActionableIntent.
C7_IntentRecord ==
    /\ LET r == _analyze_intent(user_input)
       IN  (~r.needs_weather /\ ~r.needs_places) => r.place = ""
    /\ pc # "start" => intent = _analyze_intent(user_input)
    /\ Geocoded => intent.needs_weather \/ intent.needs_places
    /\ pc # "NoActionableIntent"
    /\ result # NoIntentMessage(intent.place)

\* an utterance with a place and no keyword was answered with places
C7_Witness ==
    /\ pc = "Done"
    /\ ~AnyKeyword(Lower(user_input), weather_keywords)
    /\ ~AnyKeyword(Lower(user_input), places_keywords)
    /\ intent.place # "" /\ intent.needs_places /\ ~intent.needs_weather

----------------------------------------------------------------------------
(* Properties of get_tourist_attractions *)

\* index of the first element named name
FirstNamed(elements, name) ==
    Min({i \in 1..Len(elements) : elements[i].name = name})

\* C8, as claimed: at most limit places are returned, each with a name, no name
\* twice, in the provider's order; and none when the provider failed.
C8_ResultCap ==
    pl_pc = "done" =>
        /\ Len(pl_places) <= pl_limit
        /\ \A i \in 1..Len(pl_places) :
              /\ pl_places[i].name # ""
              /\ \E k \in 1..Len(pl_elements) :
                    pl_elements[k].name = pl_places[i].name
        /\ \A i, j \in 1..Len(pl_places) :
              i < j => /\ pl_places[i].name # pl_places[j].name
                       /\ FirstNamed(pl_elements, pl_places[i].name)
                            < FirstNamed(pl_elements, pl_places[j].name)

----------------------------------------------------------------------------
(* Properties of _extract_place *)

\* the part of text after the first occurrence of search_pattern in the padded,
\* lower-cased text
PaddedCandidate(text, search_pattern) ==
    LET padded == " " \o Lower(text) \o " "
    IN  SliceFrom(text, Find(padded, search_pattern) - 1 + Len(search_pattern))

\* C9, as claimed: the candidate taken for a pattern that occurs is the text
\* after its first occurrence in the padded text.
C9_CandidateAfterPhrase ==
    [][(ex_pc = "scan" /\ PatternMatches(Lower(ex_input), patterns[ex_i][2]))
          => after_pattern' = PaddedCandidate(ex_input, patterns[ex_i][2])]_vars

\* the prefix of candidate before the earliest occurrence of any delimiter
BeforeEarliestDelimiter(candidate) ==
    LET hits == {Find(Lower(candidate), delimiters[k]) : k \in 1..Len(delimiters)}
                \ {-1}
    IN  IF hits = {} THEN candidate ELSE SliceTo(candidate, Min(hits))

\* C10, as claimed: the delimiter loop leaves the candidate's prefix before its
\* earliest delimiter, and a place returned through a pattern holds no delimiter.
C10_DelimiterTruncation ==
    [][(ex_pc = "scan" /\ PatternMatches(Lower(ex_input), patterns[ex_i][2]))
          => /\ truncated' = BeforeEarliestDelimiter(after_pattern')
             /\ ex_pc' = "done" =>
                   \A k \in 1..Len(delimiters) :
                       ~Contains(Lower(ex_place'), delimiters[k])]_vars

====
